---- MODULE Spec2Model ----
(***************************************************************************)
(* Model of the Atlas query-fulfilment engine (TCP-Lab/Atlas).             *)
(*                                                                         *)
(* Two packages of the repository implement the engine:                    *)
(*   src/atlas/core.py      pivot-column detection, merge on the pivot     *)
(*   src/cma_atlas/core.py  max_cores, merge_or_concat fold                *)
(* Both share test_query, the process pool and the error scan.  The        *)
(* variable `engine` says which of the two Atlas classes is running.       *)
(***************************************************************************)
EXTENDS Integers, Sequences, FiniteSets, TLC

VARIABLES
    engine,            \* "atlas" | "cma_atlas": the package whose Atlas runs
    query,             \* AtlasQuery: [type, interfaces, version]
    max_cores,         \* <<>> for None, <<n>> for an integer
    cpus,              \* multiprocessing.cpu_count()
    output,            \* what each registered interface's run() does
    pc,                \* position of fulfill_query
    query_interfaces,  \* the resolved units (names), core.py line 91
    n_processes,       \* size of the process pool, 0 before it exists
    unitState,         \* per submitted unit: pending, queued, running, done
                       \* or cancelled
    completed,         \* indices of the units in the order they finished
    data,              \* results collected by list(pool.map(...))
    crashed,           \* index whose exception escaped pool.map, 0 if none
    warnings,          \* warnings logged by test_query and by run()
    rec,               \* what the merge stage did
    outcome,           \* what fulfill_query returned or raised
    prev               \* the caller's record of its previous call, if any

vars == <<engine, query, max_cores, cpus, output, pc, query_interfaces,
          n_processes, unitState, completed, data, crashed, warnings, rec,
          outcome, prev>>

(***************************************************************************)
(* Bounds                                                                  *)
(***************************************************************************)
MaxQueryLen == 3
MaxCpus == 2
MaxRows == 2
MaxVal == 2

(***************************************************************************)
(* Generic helpers                                                         *)
(***************************************************************************)
Range(s) == {s[i] : i \in 1..Len(s)}

SeqsUpTo(S, n) == UNION {[1..k -> S] : k \in 0..n}

Min(a, b) == IF a <= b THEN a ELSE b

Max(a, b) == IF a >= b THEN a ELSE b

\* [x for x in s if P(x)] for a list comprehension with a filter
RECURSIVE FilterSeq(_, _)
FilterSeq(s, keep) ==
    IF s = <<>> THEN <<>>
    ELSE (IF Head(s) \in keep THEN <<Head(s)>> ELSE <<>>) \o FilterSeq(Tail(s), keep)

(***************************************************************************)
(* Tables (pandas DataFrames): ordered column names, rows aligned to them  *)
(***************************************************************************)
EmptyTable == [cols |-> <<>>, rows |-> <<>>]

NA == -1

HasCol(t, c) == c \in Range(t.cols)

ColIndex(t, c) == CHOOSE i \in 1..Len(t.cols) : t.cols[i] = c

Cell(t, r, c) == t.rows[r][ColIndex(t, c)]

\* the values of row r of t in the columns K
Key(t, r, K) == [j \in 1..Len(K) |-> Cell(t, r, K[j])]

KeysOf(t, K) == {Key(t, r, K) : r \in 1..Len(t.rows)}

\* no two rows of t agree on all the columns K
KeysUnique(t, K) ==
    \A r1, r2 \in 1..Len(t.rows) : Key(t, r1, K) = Key(t, r2, K) => r1 = r2

\* the row indices of t whose key is k, in row order
RowsWithKey(t, K, k) ==
    FilterSeq([r \in 1..Len(t.rows) |-> r],
              {r \in 1..Len(t.rows) : Key(t, r, K) = k})

\* columns of x that are also columns of y, in the order of x
CommonCols(x, y) == FilterSeq(x.cols, Range(y.cols))

\* columns of y that x does not have, in the order of y
NewCols(x, y) == FilterSeq(y.cols, Range(y.cols) \ Range(x.cols))

\* ordering of values with the missing value last
LessVal(a, b) == IF a = NA THEN FALSE ELSE IF b = NA THEN TRUE ELSE a < b

\* lexicographic ordering of keys
RECURSIVE LessKey(_, _)
LessKey(a, b) ==
    IF a = <<>> THEN FALSE
    ELSE IF Head(a) = Head(b) THEN LessKey(Tail(a), Tail(b))
    ELSE LessVal(Head(a), Head(b))

RECURSIVE SortKeys(_)
SortKeys(S) ==
    IF S = {} THEN <<>>
    ELSE LET m == CHOOSE k \in S : \A o \in S \ {k} : LessKey(k, o)
         IN <<m>> \o SortKeys(S \ {m})

RECURSIVE Concat(_)
Concat(ss) == IF ss = <<>> THEN <<>> ELSE Head(ss) \o Concat(Tail(ss))

NAs(n) == [i \in 1..n |-> NA]

\* pandas.concat([x, y], ignore_index=True): rows of x then rows of y over
\* the union of the columns in first-seen order, missing cells NA
PdConcat(x, y) ==
    LET cols == x.cols \o NewCols(x, y)
        fill(t, r) == [j \in 1..Len(cols) |->
                          IF HasCol(t, cols[j]) THEN Cell(t, r, cols[j]) ELSE NA]
    IN [cols |-> cols,
        rows |-> [r \in 1..Len(x.rows) |-> fill(x, r)]
                 \o [r \in 1..Len(y.rows) |-> fill(y, r)]]

\* faulty variant: how="inner", the keys that only one side has are dropped
PdMergeInner(x, y, K) ==
    LET keyset  == Range(K)
        xname(c) == IF c \notin keyset /\ HasCol(y, c) THEN c \o "_x" ELSE c
        yname(c) == IF HasCol(x, c) THEN c \o "_y" ELSE c
        yextra  == FilterSeq(y.cols, Range(y.cols) \ keyset)
        cols    == [j \in 1..Len(x.cols) |-> xname(x.cols[j])]
                   \o [j \in 1..Len(yextra) |-> yname(yextra[j])]
        ypart(r) == [j \in 1..Len(yextra) |-> Cell(y, r, yextra[j])]
        rowsFor(k) ==
            LET lx == RowsWithKey(x, K, k)
                ly == RowsWithKey(y, K, k)
            IN Concat([i \in 1..Len(lx) |->
                   [j \in 1..Len(ly) |-> x.rows[lx[i]] \o ypart(ly[j])]])
        keys == SortKeys(KeysOf(x, K) \cap KeysOf(y, K))
    IN [cols |-> cols,
        rows |-> Concat([i \in 1..Len(keys) |-> rowsFor(keys[i])])]

\* pandas.merge(x, y, on=K, how="outer"): outer join on the columns K, keys
\* sorted; the other columns the two sides share get the suffixes _x and _y
PdMergeOuter(x, y, K) ==
    LET keyset  == Range(K)
        xname(c) == IF c \notin keyset /\ HasCol(y, c) THEN c \o "_x" ELSE c
        yname(c) == IF HasCol(x, c) THEN c \o "_y" ELSE c
        yextra  == FilterSeq(y.cols, Range(y.cols) \ keyset)
        cols    == [j \in 1..Len(x.cols) |-> xname(x.cols[j])]
                   \o [j \in 1..Len(yextra) |-> yname(yextra[j])]
        ypart(r) == [j \in 1..Len(yextra) |-> Cell(y, r, yextra[j])]
        xonly(k) == [j \in 1..Len(x.cols) |->
                        IF x.cols[j] \in keyset
                            THEN k[CHOOSE i \in 1..Len(K) : K[i] = x.cols[j]]
                            ELSE NA]
        rowsFor(k) ==
            LET lx == RowsWithKey(x, K, k)
                ly == RowsWithKey(y, K, k)
            IN IF lx = <<>>
                   THEN [i \in 1..Len(ly) |-> xonly(k) \o ypart(ly[i])]
               ELSE IF ly = <<>>
                   THEN [i \in 1..Len(lx) |-> x.rows[lx[i]] \o NAs(Len(yextra))]
               ELSE Concat([i \in 1..Len(lx) |->
                        [j \in 1..Len(ly) |-> x.rows[lx[i]] \o ypart(ly[j])]])
        keys == SortKeys(KeysOf(x, K) \cup KeysOf(y, K))
    IN [cols |-> cols,
        rows |-> Concat([i \in 1..Len(keys) |-> rowsFor(keys[i])])]

(***************************************************************************)
(* The registry: Atlas.interfaces                                          *)
(***************************************************************************)
interfaces ==
    << [name |-> "X", type |-> "T"],
       [name |-> "Y", type |-> "T"],
       [name |-> "Z", type |-> "U"],
       [name |-> "R", type |-> "T"] >>

InterfaceNames == {interfaces[i].name : i \in 1..Len(interfaces)}

InterfaceTypes == {interfaces[i].type : i \in 1..Len(interfaces)}

TypeOf(n) == interfaces[CHOOSE i \in 1..Len(interfaces) : interfaces[i].name = n].type

\* names a query may carry: the registered ones and one that is not
QueryNames == InterfaceNames \cup {"W"}

QueryTypes == {"T", "N"}

QueryVersions == {"1.0", "0.9"}

__version__ == "1.0"

(***************************************************************************)
(* Atlas.test_query                                                        *)
(***************************************************************************)
\* faulty variant: a query that names no interface skips the type test
UnsupportedTypeIfNamed(q) == q.interfaces # <<>> /\ q.type \notin InterfaceTypes

\* line 42: the type test
UnsupportedType(q) == q.type \notin InterfaceTypes

\* faulty variant: any() in place of all()
UnsupportedInterfaceIfNone(q) ==
    ~ (\E i \in 1..Len(q.interfaces) : q.interfaces[i] \in InterfaceNames)

\* faulty variant: only the first name is looked up
UnsupportedInterfaceFirstOnly(q) ==
    q.interfaces # <<>> /\ q.interfaces[1] \notin InterfaceNames

\* lines 46-47: the names test
UnsupportedInterface(q) ==
    ~ (\A i \in 1..Len(q.interfaces) : q.interfaces[i] \in InterfaceNames)

\* faulty variant: the units in the order the query names them
QueryInterfacesAsGiven(q) == q.interfaces

\* line 53 / line 91: [x for x in self.interfaces if x.name in query.interfaces]
QueryInterfaces(q) ==
    FilterSeq([i \in 1..Len(interfaces) |-> interfaces[i].name], Range(q.interfaces))

\* lines 54-63: the two warnings
TestQueryWarnings(q) ==
    (IF \E n \in Range(QueryInterfaces(q)) : TypeOf(n) # q.type
        THEN {"mixed types"} ELSE {})
    \cup (IF q.version # __version__ THEN {"version"} ELSE {})

\* faulty variant: a query produced by another version is rejected
test_queryThisVersion(q) ==
    IF UnsupportedType(q)
        THEN [ok |-> FALSE, err |-> "unsupported type", warnings |-> {}]
    ELSE IF UnsupportedInterface(q)
        THEN [ok |-> FALSE, err |-> "unsupported interface(s)", warnings |-> {}]
    ELSE IF q.version # __version__
        THEN [ok |-> FALSE, err |-> "version", warnings |-> {}]
    ELSE [ok |-> TRUE, err |-> "", warnings |-> TestQueryWarnings(q)]

test_query(q) ==
    IF UnsupportedType(q)
        THEN [ok |-> FALSE, err |-> "unsupported type", warnings |-> {}]
    ELSE IF UnsupportedInterface(q)
        THEN [ok |-> FALSE, err |-> "unsupported interface(s)", warnings |-> {}]
    ELSE [ok |-> TRUE, err |-> "", warnings |-> TestQueryWarnings(q)]

(***************************************************************************)
(* Pool size: cma_atlas/core.py lines 93-96, atlas/core.py line 63         *)
(***************************************************************************)
\* faulty variant: max_cores is passed to the pool as given
NProcessesAsGiven(e, mc, cpu) ==
    IF e = "atlas" THEN cpu
    ELSE IF mc = <<>> THEN cpu
    ELSE mc[1]

\* faulty variant: max_cores is ignored, one worker per core
NProcessesPerCore(e, mc, cpu) == cpu

NProcesses(e, mc, cpu) ==
    IF e = "atlas" THEN cpu
    ELSE IF mc = <<>> THEN cpu
    ELSE Max(1, Min(mc[1], cpu))

(***************************************************************************)
(* Outcomes of fulfill_query                                               *)
(***************************************************************************)
\* kind: "none" (still running), "Abort", "raise", "return"
\* by:   the statement that ended the call
\* err:  the logged error, or the kind of exception
\* iface: the interface named by the log line of the error scan
\* origin: the unit whose exception object is raised
\* first, second: the two columns named by the two-pivots log line
Outcome(kind, by, err, iface, origin, first, second, table) ==
    [kind |-> kind, by |-> by, err |-> err, iface |-> iface, origin |-> origin,
     first |-> first, second |-> second, table |-> table]

NoOutcome == Outcome("none", "", "", "", "", "", "", EmptyTable)

\* steps: one record per call of the binary function of the reduce, in order
NoRec == [invoked |-> FALSE, duplicate_cols |-> <<>>, pivot_col |-> <<>>,
          merges |-> 0, concats |-> 0, steps |-> <<>>]

\* one call of the binary function: its two arguments, the columns joined on
\* (<<>> when the rows were concatenated) and what it returned
Step(left, right, on, concat, result) ==
    [left |-> left, right |-> right, on |-> on, concat |-> concat,
     result |-> result]

(***************************************************************************)
(* cma_atlas/core.py: merge_or_concat and the reduce over data             *)
(***************************************************************************)
\* faulty variant: the validation of the join rejects every pair of frames
MergeRaisesAlways(x, y) == TRUE

\* pd.merge(x, y, how="outer", validate="one_to_one") raises MergeError, a
\* ValueError, when x and y share no column or when the shared columns do
\* not identify the rows of x, or of y, uniquely
MergeRaisesValueError(x, y) ==
    LET K == CommonCols(x, y)
    IN \/ K = <<>>
       \/ ~ KeysUnique(x, K)
       \/ ~ KeysUnique(y, K)

\* faulty variant: the two frames are passed to pandas in the other order
merge_or_concatSwapped(x, y) ==
    IF MergeRaisesValueError(y, x)
        THEN Step(x, y, <<>>, TRUE, PdConcat(y, x))
        ELSE Step(x, y, CommonCols(y, x), FALSE,
                  PdMergeOuter(y, x, CommonCols(y, x)))

merge_or_concat(x, y) ==
    IF MergeRaisesValueError(x, y)
        THEN Step(x, y, <<>>, TRUE, PdConcat(x, y))
        ELSE Step(x, y, CommonCols(x, y), FALSE,
                  PdMergeOuter(x, y, CommonCols(x, y)))

\* reduce(merge_or_concat, data) from the accumulator acc over rest
RECURSIVE ReduceMergeOrConcat(_, _, _)
ReduceMergeOrConcat(acc, rest, steps) ==
    IF rest = <<>> THEN [table |-> acc, steps |-> steps]
    ELSE LET r == merge_or_concat(acc, Head(rest))
         IN ReduceMergeOrConcat(r.result, Tail(rest), Append(steps, r))

(***************************************************************************)
(* atlas/core.py: duplicate columns, pivot column, reduce over pd.merge    *)
(***************************************************************************)
\* lines 89-97, over the columns of all the frames in order
RECURSIVE DetectDuplicates(_, _, _)
DetectDuplicates(cols, all_cols, duplicate_cols) ==
    IF cols = <<>> THEN duplicate_cols
    ELSE LET col == Head(cols)
         IN IF col \in Range(all_cols) /\ col \notin Range(duplicate_cols)
                THEN DetectDuplicates(Tail(cols), all_cols,
                                      Append(duplicate_cols, col))
                ELSE DetectDuplicates(Tail(cols), Append(all_cols, col),
                                      duplicate_cols)

DuplicateCols(tables) ==
    DetectDuplicates(Concat([i \in 1..Len(tables) |-> tables[i].cols]), <<>>, <<>>)

\* faulty variant: a duplicate column is taken to be in every frame
InAllFramesUnchecked(col, tables) == TRUE

\* line 108
InAllFrames(col, tables) == \A i \in 1..Len(tables) : HasCol(tables[i], col)

\* faulty variant: a duplicate column that a frame lacks aborts the call
RECURSIVE FindPivotOrAbort(_, _, _)
FindPivotOrAbort(duplicate_cols, tables, pivot_col) ==
    IF duplicate_cols = <<>>
        THEN [abort |-> FALSE, pivot_col |-> pivot_col, second |-> ""]
    ELSE LET duplicate_col == Head(duplicate_cols)
         IN IF ~ InAllFrames(duplicate_col, tables)
                THEN [abort |-> TRUE, pivot_col |-> <<duplicate_col>>,
                      second |-> duplicate_col]
            ELSE IF pivot_col = <<>>
                THEN FindPivotOrAbort(Tail(duplicate_cols), tables, <<duplicate_col>>)
            ELSE [abort |-> TRUE, pivot_col |-> pivot_col,
                  second |-> duplicate_col]

\* lines 106-118; pivot_col is <<>> for None
RECURSIVE FindPivot(_, _, _)
FindPivot(duplicate_cols, tables, pivot_col) ==
    IF duplicate_cols = <<>>
        THEN [abort |-> FALSE, pivot_col |-> pivot_col, second |-> ""]
    ELSE LET duplicate_col == Head(duplicate_cols)
         IN IF ~ InAllFrames(duplicate_col, tables)
                THEN FindPivot(Tail(duplicate_cols), tables, pivot_col)
            ELSE IF pivot_col = <<>>
                THEN FindPivot(Tail(duplicate_cols), tables, <<duplicate_col>>)
            ELSE [abort |-> TRUE, pivot_col |-> pivot_col,
                  second |-> duplicate_col]

\* the columns pd.merge(left, right, on=pivot_col) joins on: on=None means
\* the columns the two frames share
JoinCols(left, right, pivot_col) ==
    IF pivot_col = <<>> THEN CommonCols(left, right) ELSE pivot_col

\* lines 123-126; pd.merge raises MergeError when there is nothing to join
\* on, and KeyError when a frame lacks the column it is told to join on
RECURSIVE ReducePdMerge(_, _, _, _)
ReducePdMerge(acc, rest, pivot_col, steps) ==
    IF rest = <<>>
        THEN [ok |-> TRUE, err |-> "", table |-> acc, steps |-> steps]
    ELSE LET K == JoinCols(acc, Head(rest), pivot_col)
             merged == PdMergeOuter(acc, Head(rest), K)
         IN IF K = <<>>
                THEN [ok |-> FALSE, err |-> "MergeError", table |-> EmptyTable,
                      steps |-> steps]
            ELSE IF \E c \in Range(K) : ~ HasCol(acc, c) \/ ~ HasCol(Head(rest), c)
                THEN [ok |-> FALSE, err |-> "KeyError", table |-> EmptyTable,
                      steps |-> steps]
                ELSE ReducePdMerge(merged, Tail(rest), pivot_col,
                         Append(steps, Step(acc, Head(rest), K, FALSE, merged)))

(***************************************************************************)
(* fulfill_query after the pool: error scan, singleton, merge              *)
(***************************************************************************)
Tables(d) == [i \in 1..Len(d) |-> d[i].table]

\* cma_atlas/core.py lines 128-149
CollapseCma(d) ==
    IF d = <<>>
        THEN [outcome |-> Outcome("raise", "reduce", "TypeError", "", "", "", "",
                                  EmptyTable),
              rec |-> [NoRec EXCEPT !.invoked = TRUE]]
    ELSE LET r == ReduceMergeOrConcat(Head(Tables(d)), Tail(Tables(d)), <<>>)
         IN [outcome |-> Outcome("return", "merge", "", "", "", "", "", r.table),
             rec |-> [NoRec EXCEPT !.invoked = TRUE,
                                   !.merges = Len(r.steps),
                                   !.concats = Cardinality(
                                       {i \in 1..Len(r.steps) : r.steps[i].concat}),
                                   !.steps = r.steps]]

\* atlas/core.py lines 84-129
CollapseAtlas(d) ==
    LET duplicate_cols == DuplicateCols(Tables(d))
        found == FindPivot(duplicate_cols, Tables(d), <<>>)
        r == ReducePdMerge(Head(Tables(d)), Tail(Tables(d)), found.pivot_col,
                           <<>>)
        rc == [NoRec EXCEPT !.invoked = TRUE, !.duplicate_cols = duplicate_cols]
    IN IF duplicate_cols = <<>>
           THEN IF d = <<>>
                    \* line 101 reads `dataframe`, which no loop has bound
                    THEN [outcome |-> Outcome("raise", "no pivot", "UnboundLocalError",
                                              "", "", "", "", EmptyTable),
                          rec |-> rc]
                    ELSE [outcome |-> Outcome("Abort", "no pivot",
                                              "No pivot columns found", "", "",
                                              "", "", EmptyTable),
                          rec |-> rc]
       ELSE IF found.abort
           THEN [outcome |-> Outcome("Abort", "two pivots", "Found two pivot columns",
                                     "", "", found.pivot_col[1], found.second,
                                     EmptyTable),
                 rec |-> [rc EXCEPT !.pivot_col = found.pivot_col]]
       ELSE IF ~ r.ok
           THEN [outcome |-> Outcome("raise", "merge", r.err, "", "", "", "",
                                     EmptyTable),
                 rec |-> [rc EXCEPT !.pivot_col = found.pivot_col,
                                    !.merges = Len(r.steps) + 1,
                                    !.steps = r.steps]]
       ELSE [outcome |-> Outcome("return", "merge", "", "", "", "", "", r.table),
             rec |-> [rc EXCEPT !.pivot_col = found.pivot_col,
                                !.merges = Len(r.steps),
                                !.steps = r.steps]]

\* faulty variant: the isinstance test never holds
IsExceptionNever(item) == FALSE

\* is item an Exception (line 120)
IsException(item) == item.kind = "failure"

\* faulty variant: the singleton shortcut taken before the error scan
FailedIndicesUnlessSingle(d) ==
    IF Len(d) = 1 THEN {} ELSE {i \in 1..Len(d) : d[i].kind = "failure"}

\* the indices enumerate(data) visits that hold an exception
FailedIndices(d) == {i \in 1..Len(d) : IsException(d[i])}

\* faulty variant: the scan keeps the last exception it meets
LastFailure(d) == CHOOSE i \in FailedIndices(d) : \A j \in FailedIndices(d) : i >= j

\* faulty variant: the failure of the unit that completed first is raised
FirstCompletedFailure(d) == Head(FilterSeq(completed, FailedIndices(d)))

\* lines 119-122: the index whose item the scan raises
FirstFailure(d) == CHOOSE i \in FailedIndices(d) : \A j \in FailedIndices(d) : i <= j

\* faulty variant: no shortcut for a single frame
AfterPoolWithoutShortcut(e, qi, d) ==
    IF FailedIndices(d) # {}
        THEN LET i == FirstFailure(d)
             IN [outcome |-> Outcome("raise", "scan", "UnitFailure", qi[i],
                                     d[i].src, "", "", EmptyTable),
                 rec |-> NoRec]
    ELSE IF e = "atlas" THEN CollapseAtlas(d) ELSE CollapseCma(d)

\* cma_atlas/core.py lines 118-149, atlas/core.py lines 74-129
AfterPool(e, qi, d) ==
    IF FailedIndices(d) # {}
        THEN LET i == FirstFailure(d)
             IN [outcome |-> Outcome("raise", "scan", "UnitFailure", qi[i],
                                     d[i].src, "", "", EmptyTable),
                 rec |-> NoRec]
    ELSE IF Len(d) = 1
        THEN [outcome |-> Outcome("return", "singleton", "", "", "", "", "",
                                  d[1].table),
              rec |-> NoRec]
    ELSE IF e = "atlas" THEN CollapseAtlas(d) ELSE CollapseCma(d)

(***************************************************************************)
(* What the interfaces do: run(x) returns x.run()                          *)
(***************************************************************************)
TableResult(u, t) == [kind |-> "table", src |-> u, table |-> t]

\* x.run() caught an exception and returned it (abcs.py lines 153-156)
FailureResult(u) == [kind |-> "failure", src |-> u, table |-> EmptyTable]

\* x.run() raised (atlas/abcs.py lines 82-86 catch nothing)
CrashResult(u) == [kind |-> "crash", src |-> u, table |-> EmptyTable]

DefaultTable(u) ==
    CASE u = "X" -> [cols |-> <<"k", "a">>, rows |-> << <<1, 10>>, <<2, 20>> >>]
      [] u = "Y" -> [cols |-> <<"k", "b">>, rows |-> << <<2, 5>>, <<3, 6>> >>]
      [] u = "Z" -> [cols |-> <<"k", "c">>, rows |-> << <<1, 7>> >>]
      [] OTHER   -> [cols |-> <<"k", "d">>, rows |-> << <<3, 8>>, <<4, 9>> >>]

\* An interface object: its downloader, its processor and its provided_cols.
\* The downloader returns ("returns") or raises an exception of a class; the
\* processor returns a table or raises; provided_cols is None, a dict of
\* promised columns, or not set at all (the class body only annotates it).
ExceptionClasses == {"Exception", "BaseException"}

\* the processor returns the table t
Returns(t) == [raises |-> "no", table |-> t]

\* the processor raises an exception of class cls
Raises(cls) == [raises |-> cls, table |-> EmptyTable]

\* provided_cols is None
None == [is |-> "None", keys |-> <<>>]

\* the class defines no provided_cols: reading it raises AttributeError
Undefined == [is |-> "undefined", keys |-> <<>>]

\* provided_cols is a dict with these keys
Dict(keys) == [is |-> "dict", keys |-> keys]

Interface(u, d, p, c) ==
    [kind |-> "interface", src |-> u, downloader |-> d, processor |-> p,
     provided_cols |-> c]

\* `except Exception as e: return e`: an instance of Exception is returned
\* as the result; KeyboardInterrupt, SystemExit and every other exception
\* that derives from BaseException only is not caught and leaves run()
ExceptException(u, cls) ==
    IF cls = "Exception" THEN FailureResult(u) ELSE CrashResult(u)

InSeq(x, s) == \E i \in 1..Len(s) : s[i] = x

\* contains_all(x, y): does y contain all items in x and vice-versa?
contains_all(x, y) ==
    /\ \A i \in 1..Len(x) : InSeq(x[i], y)
    /\ \A i \in 1..Len(y) : InSeq(y[i], x)

\* the promised-column check of cma_atlas (atlas/interfaces.py has none)
HasColumnCheck(e) == e = "cma_atlas"

\* the check finds a mismatch and logs the warning
ColumnsMismatch(e, o) ==
    /\ HasColumnCheck(e)
    /\ o.downloader = "returns"
    /\ o.processor.raises = "no"
    /\ o.provided_cols.is = "dict"
    /\ ~ contains_all(o.processor.table.cols, o.provided_cols.keys)

\* the same, but a mismatch of the columns is an error
InterfaceRunEnforcing(e, o) ==
    IF o.downloader # "returns" THEN ExceptException(o.src, o.downloader)
    ELSE IF o.processor.raises # "no"
        THEN ExceptException(o.src, o.processor.raises)
    ELSE IF HasColumnCheck(e) /\ o.provided_cols.is = "undefined"
        THEN ExceptException(o.src, "Exception")
    ELSE IF ColumnsMismatch(e, o) THEN FailureResult(o.src)
    ELSE TableResult(o.src, o.processor.table)

\* AtlasInterface.run (cma_atlas) and BaseTestInterface.run (atlas)
InterfaceRun(e, o) ==
    IF o.downloader # "returns" THEN ExceptException(o.src, o.downloader)
    ELSE IF o.processor.raises # "no"
        THEN ExceptException(o.src, o.processor.raises)
    ELSE IF HasColumnCheck(e) /\ o.provided_cols.is = "undefined"
        THEN ExceptException(o.src, "Exception")
    ELSE TableResult(o.src, o.processor.table)

\* what run() logs in the worker
RunWarnings(e, o) ==
    IF o.kind = "interface" /\ ColumnsMismatch(e, o)
        THEN {"promised columns"} ELSE {}

\* an interface of kind "table", "failure" or "crash" stands for one whose
\* run() ends that way, whatever happens inside it
run(x) ==
    IF output[x].kind = "interface" THEN InterfaceRun(engine, output[x])
    ELSE output[x]

(***************************************************************************)
(* The state after construction                                            *)
(***************************************************************************)
\* no call of fulfill_query has ended yet
NoPrev == [called |-> FALSE,
           query |-> [type |-> "", interfaces |-> <<>>, version |-> ""],
           warnings |-> {}, n_processes |-> 0, outcome |-> NoOutcome]

InitCommon ==
    /\ pc = "call"
    /\ query_interfaces = <<>>
    /\ n_processes = 0
    /\ unitState = <<>>
    /\ completed = <<>>
    /\ data = <<>>
    /\ crashed = 0
    /\ warnings = {}
    /\ rec = NoRec
    /\ outcome = NoOutcome
    /\ prev = NoPrev

\* the engine with its max_cores argument (atlas/core.py takes none)
InitEngine ==
    \/ engine = "atlas" /\ max_cores = <<>>
    \/ engine = "cma_atlas" /\ max_cores \in {<<>>, <<1>>}

\* the interfaces fulfill_query will run
RunNames(q) == IF test_query(q).ok THEN Range(q.interfaces) ELSE {}

\* every interface that is run returns a table, returns an exception or
\* raises; what the others would do is left out
Kinds == {"table", "failure", "crash"}

ResultOfKind(u, k) ==
    CASE k = "table"   -> TableResult(u, DefaultTable(u))
      [] k = "failure" -> FailureResult(u)
      [] OTHER         -> CrashResult(u)

InitOutput(names) ==
    \E k \in [names -> Kinds] :
        output = [u \in InterfaceNames |->
                     IF u \in names THEN ResultOfKind(u, k[u])
                                    ELSE TableResult(u, DefaultTable(u))]

\* the query that names every interface, in registry order
AllInterfaces == [i \in 1..Len(interfaces) |-> interfaces[i].name]

Queries ==
    [type : QueryTypes,
     interfaces : SeqsUpTo(QueryNames, MaxQueryLen) \cup {AllInterfaces},
     version : QueryVersions]

Init ==
    /\ InitEngine
    /\ cpus \in 1..MaxCpus
    /\ query \in Queries
    /\ InitOutput(RunNames(query))
    /\ InitCommon

(***************************************************************************)
(* Fulfilment of queries over interfaces that all return tables, for the   *)
(* merge stage: every table with two columns and few rows for two          *)
(* interfaces, every choice of columns for three                           *)
(***************************************************************************)
Values == 1..MaxVal

RowsOver(w) == SeqsUpTo([1..w -> Values], MaxRows)

TwoColumns == {<<"A", "B">>, <<"B", "C">>, <<"C", "D">>}

SmallTables == UNION {{[cols |-> c, rows |-> r] : r \in RowsOver(Len(c))} :
                        c \in TwoColumns}

Columns == TwoColumns \cup {<<"B", "D">>, <<"A", "B", "C">>, <<"C", "E">>}

\* rows whose cells all hold the value of the row
RowsOf(w, vals) == [r \in 1..Len(vals) |-> [j \in 1..w |-> vals[r]]]

InitTwoTables ==
    /\ query = [type |-> "T", interfaces |-> <<"X", "Y">>, version |-> __version__]
    /\ \E tx, ty \in SmallTables :
          output = [u \in InterfaceNames |->
                       IF u = "X" THEN TableResult(u, tx)
                       ELSE IF u = "Y" THEN TableResult(u, ty)
                       ELSE TableResult(u, DefaultTable(u))]

InitThreeTables ==
    /\ query = [type |-> "T", interfaces |-> <<"X", "Y", "R">>,
                version |-> __version__]
    /\ \E cx, cy, cr \in Columns :
          output = [u \in InterfaceNames |->
                       IF u = "X"
                           THEN TableResult(u, [cols |-> cx,
                                                rows |-> RowsOf(Len(cx), <<1, 2>>)])
                       ELSE IF u = "Y"
                           THEN TableResult(u, [cols |-> cy,
                                                rows |-> RowsOf(Len(cy), <<2, 3>>)])
                       ELSE IF u = "R"
                           THEN TableResult(u, [cols |-> cr,
                                                rows |-> RowsOf(Len(cr), <<1, 3>>)])
                       ELSE TableResult(u, DefaultTable(u))]

\* X and Y share the columns A and B and hold any rows; R has B alone of them
InitSharedExtra ==
    /\ query = [type |-> "T", interfaces |-> <<"X", "Y", "R">>,
                version |-> __version__]
    /\ \E rx, ry \in RowsOver(2) :
          output = [u \in InterfaceNames |->
                       IF u = "X"
                           THEN TableResult(u, [cols |-> <<"A", "B">>, rows |-> rx])
                       ELSE IF u = "Y"
                           THEN TableResult(u, [cols |-> <<"A", "B">>, rows |-> ry])
                       ELSE IF u = "R"
                           THEN TableResult(u, [cols |-> <<"B", "D">>,
                                                rows |-> RowsOf(2, <<1, 2>>)])
                       ELSE TableResult(u, DefaultTable(u))]

\* the table both interfaces of the append example return
IdV == [cols |-> <<"id", "v">>, rows |-> <<<<1, 10>>, <<2, 20>>>>]

InitAppendExample ==
    /\ query = [type |-> "T", interfaces |-> <<"X", "Y">>, version |-> __version__]
    /\ output = [u \in InterfaceNames |->
                    IF u \in {"X", "Y"} THEN TableResult(u, IdV)
                    ELSE TableResult(u, DefaultTable(u))]

InitReconcile ==
    /\ \/ engine = "atlas" /\ max_cores = <<>>
       \/ engine = "cma_atlas" /\ max_cores = <<1>>
    /\ cpus = 1
    /\ InitTwoTables \/ InitThreeTables \/ InitSharedExtra \/ InitAppendExample
    /\ InitCommon

(***************************************************************************)
(* The process pool (concurrent.futures.ProcessPoolExecutor)               *)
(***************************************************************************)
StateIs(us, st) == {i \in 1..Len(us) : us[i] = st}

First(S) == CHOOSE p \in S : \A o \in S : p <= o

\* the call queue holds one work item more than there are workers
CallQueueFull(us, n) == Cardinality(StateIs(us, "queued")) >= n + 1

\* the manager thread moves the pending work items, in submission order, to
\* the call queue until the queue is full; a queued item cannot be cancelled
RECURSIVE FillCallQueue(_, _)
FillCallQueue(us, n) ==
    IF StateIs(us, "pending") = {} \/ CallQueueFull(us, n) THEN us
    ELSE FillCallQueue([us EXCEPT ![First(StateIs(us, "pending"))] = "queued"], n)

Units == 1..Len(unitState)

Pending == StateIs(unitState, "pending")

Queued == StateIs(unitState, "queued")

Running == StateIs(unitState, "running")

(***************************************************************************)
(* fulfill_query up to pool.map: validation, resolution, pool creation,    *)
(* submission of every unit                                                *)
(***************************************************************************)
FulfillQuery ==
    /\ pc = "call"
    /\ LET t == test_query(query)
           qi == QueryInterfaces(query)
           n == NProcesses(engine, max_cores, cpus)
       IN IF ~ t.ok
              THEN /\ pc' = "done"
                   /\ outcome' = Outcome("Abort", "test_query", t.err, "", "",
                                         "", "", EmptyTable)
                   /\ UNCHANGED <<query_interfaces, n_processes, unitState,
                                  warnings>>
              ELSE /\ query_interfaces' = qi
                   /\ n_processes' = n
                   /\ unitState' = FillCallQueue([i \in 1..Len(qi) |-> "pending"], n)
                   /\ warnings' = t.warnings
                   /\ pc' = IF qi = <<>> THEN "shutdown" ELSE "map"
                   /\ UNCHANGED outcome
    /\ UNCHANGED <<prev, engine, query, max_cores, cpus, output, completed, data,
                   crashed, rec>>

\* a free worker process takes the next work item of the call queue
WorkerStart ==
    /\ pc \in {"map", "shutdown"}
    /\ Queued # {}
    /\ Cardinality(Running) < n_processes
    /\ unitState' = [unitState EXCEPT ![First(Queued)] = "running"]
    /\ UNCHANGED <<prev, engine, query, max_cores, cpus, output, pc, query_interfaces,
                   n_processes, completed, data, crashed, warnings, rec,
                   outcome>>

\* a worker finishes run(x); the manager thread sets its future and refills
\* the call queue
WorkerFinish(i) ==
    /\ pc \in {"map", "shutdown"}
    /\ i \in Running
    /\ unitState' = FillCallQueue([unitState EXCEPT ![i] = "done"], n_processes)
    /\ completed' = Append(completed, i)
    /\ warnings' = warnings \cup RunWarnings(engine, output[query_interfaces[i]])
    /\ UNCHANGED <<prev, engine, query, max_cores, cpus, output, pc, query_interfaces,
                   n_processes, data, crashed, rec, outcome>>

\* the result iterator of pool.map yields the results in submission order and
\* blocks until the next one is there
NextReady(i) == i \in Units /\ unitState[i] = "done"

\* list(pool.map(run, query_interfaces)) takes the next result; an exception
\* raised by run leaves the iterator, which cancels the futures not yet taken
Collect ==
    /\ pc = "map"
    /\ LET i == Len(data) + 1
           item == run(query_interfaces[i])
       IN /\ NextReady(i)
          /\ IF item.kind = "crash"
                 THEN /\ crashed' = i
                      /\ unitState' = [j \in Units |->
                            IF unitState[j] = "pending" THEN "cancelled"
                                                        ELSE unitState[j]]
                      /\ pc' = "shutdown"
                      /\ UNCHANGED data
                 ELSE /\ data' = Append(data, item)
                      /\ pc' = IF Len(data') = Len(query_interfaces)
                                   THEN "shutdown" ELSE "map"
                      /\ UNCHANGED <<crashed, unitState>>
    /\ UNCHANGED <<prev, engine, query, max_cores, cpus, output, query_interfaces,
                   n_processes, completed, warnings, rec, outcome>>

\* leaving the `with` block: shutdown(wait=True)
AllReturned == \A i \in Units : unitState[i] \in {"done", "cancelled"}

\* the pool is shut down and fulfill_query runs to its end
PoolShutdown ==
    /\ pc = "shutdown"
    /\ AllReturned
    /\ LET r == AfterPool(engine, query_interfaces, data)
       IN IF crashed # 0
              THEN /\ outcome' = Outcome("raise", "pool.map", "WorkerException",
                                         "", query_interfaces[crashed], "", "",
                                         EmptyTable)
                   /\ UNCHANGED rec
              ELSE /\ outcome' = r.outcome
                   /\ rec' = r.rec
    /\ pc' = "done"
    /\ UNCHANGED <<prev, engine, query, max_cores, cpus, output, query_interfaces,
                   n_processes, unitState, completed, data, crashed,
                   warnings>>

\* the caller, whose call has ended, calls fulfill_query of the same Atlas
\* again with the same query, produced by any version; the interfaces and
\* the machine are as before
CallAgain ==
    /\ pc = "done"
    /\ ~ prev.called
    /\ prev' = [called |-> TRUE, query |-> query, warnings |-> warnings,
                n_processes |-> n_processes, outcome |-> outcome]
    /\ \E v \in QueryVersions : query' = [query EXCEPT !.version = v]
    /\ pc' = "call"
    /\ query_interfaces' = <<>>
    /\ n_processes' = 0
    /\ unitState' = <<>>
    /\ completed' = <<>>
    /\ data' = <<>>
    /\ crashed' = 0
    /\ warnings' = {}
    /\ rec' = NoRec
    /\ outcome' = NoOutcome
    /\ UNCHANGED <<engine, max_cores, cpus, output>>

\* the same call is made again, with the same query and the same interfaces,
\* with any max_cores and on a machine with any number of cores
CallAgainWithCores ==
    /\ pc = "done"
    /\ ~ prev.called
    /\ prev' = [called |-> TRUE, query |-> query, warnings |-> warnings,
                n_processes |-> n_processes, outcome |-> outcome]
    /\ cpus' \in 1..MaxCpus
    /\ max_cores' \in IF engine = "atlas" THEN {<<>>}
                      ELSE {<<>>} \cup {<<n>> : n \in 1..MaxCpus}
    /\ pc' = "call"
    /\ query_interfaces' = <<>>
    /\ n_processes' = 0
    /\ unitState' = <<>>
    /\ completed' = <<>>
    /\ data' = <<>>
    /\ crashed' = 0
    /\ warnings' = {}
    /\ rec' = NoRec
    /\ outcome' = NoOutcome
    /\ UNCHANGED <<engine, query, output>>

Next ==
    \/ FulfillQuery
    \/ WorkerStart
    \/ \E i \in 1..Len(interfaces) : WorkerFinish(i)
    \/ Collect
    \/ PoolShutdown

Spec == Init /\ [][Next]_vars

SpecReconcile == InitReconcile /\ [][Next]_vars

\* fulfill_query(query, max_cores) for any max_cores a caller can pass, on
\* interfaces that all return their table
InitWorkers ==
    /\ \/ engine = "atlas" /\ max_cores = <<>>
       \/ /\ engine = "cma_atlas"
          /\ max_cores \in {<<>>} \cup {<<n>> : n \in -1..(MaxCpus + 1)}
    /\ cpus \in 1..MaxCpus
    /\ query \in [type : {"T"}, interfaces : {<<"X", "Y">>, AllInterfaces},
                  version : {__version__}]
    /\ output = [u \in InterfaceNames |-> TableResult(u, DefaultTable(u))]
    /\ InitCommon

SpecWorkers == InitWorkers /\ [][Next]_vars

\* the tables a processor can return: the interface's own table, or one
\* with other columns
ProcessedTables(u) ==
    {DefaultTable(u), [cols |-> <<"k", "e">>, rows |-> << <<1, 3>> >>]}

\* what a downloader can do
Downloaders == {"returns"} \cup ExceptionClasses

\* what a processor can do with the data of interface u
Processors(u) ==
    {Returns(t) : t \in ProcessedTables(u)} \cup {Raises(c) : c \in ExceptionClasses}

\* the provided_cols an interface can have: not set, None, or the columns of
\* its own table (a dict, in any key order)
ProvidedCols(u) ==
    {Undefined, None,
     Dict(<<DefaultTable(u).cols[2], DefaultTable(u).cols[1]>>)}

Interfaces(u) ==
    {Interface(u, d, p, c) :
        d \in Downloaders, p \in Processors(u), c \in ProvidedCols(u)}

\* a query of two interfaces whose run() is the one of the base class
InitRun ==
    /\ InitEngine
    /\ cpus \in 1..MaxCpus
    /\ query = [type |-> "T", interfaces |-> <<"X", "Y">>, version |-> __version__]
    /\ \E x \in Interfaces("X"), y \in Interfaces("Y") :
          output = [u \in InterfaceNames |->
                       CASE u = "X" -> x
                         [] u = "Y" -> y
                         [] OTHER   -> TableResult(u, DefaultTable(u))]
    /\ InitCommon

SpecRun == InitRun /\ [][Next]_vars

NextTwice ==
    \/ Next
    \/ CallAgain

\* two calls in a row
SpecTwice == Init /\ [][NextTwice]_vars

\* two or four units, each returning a table, returning a failure or raising
InitProgress ==
    /\ InitEngine
    /\ cpus \in 1..MaxCpus
    /\ query \in [type : {"T"}, interfaces : {<<"X", "Y">>, AllInterfaces},
                  version : {__version__}]
    /\ InitOutput(RunNames(query))
    /\ InitCommon

\* the operating system schedules every worker process and the main process:
\* a step that stays possible is eventually taken; every run() terminates.
\* The last conjunct is weak fairness of PoolShutdown, written with the
\* condition under which that step is possible: the step makes the condition
\* false for good, so being taken and not staying possible are the same
Fairness ==
    /\ WF_vars(FulfillQuery)
    /\ WF_vars(WorkerStart)
    /\ \A i \in 1..Len(interfaces) : WF_vars(WorkerFinish(i))
    /\ WF_vars(Collect)
    /\ []<>~(pc = "shutdown" /\ AllReturned)

SpecProgress == InitProgress /\ [][Next]_vars /\ Fairness

NextSched ==
    \/ Next
    \/ CallAgainWithCores

\* the same call twice, under any two schedules and pool sizes
SpecSched == Init /\ [][NextSched]_vars

(***************************************************************************)
(* Properties                                                              *)
(***************************************************************************)
Dispatched == 1..Len(query_interfaces)

ResultOf(i) == run(query_interfaces[i])

\* the dispatched units that do not deliver a table
Failing == {i \in Dispatched : ResultOf(i).kind # "table"}

Returning == {i \in Dispatched : ResultOf(i).kind = "failure"}

Raising == {i \in Dispatched : ResultOf(i).kind = "crash"}

RegistryPos(n) == CHOOSE i \in 1..Len(interfaces) : interfaces[i].name = n

QueryPos(n) == First({i \in 1..Len(query.interfaces) : query.interfaces[i] = n})

\* C1: fail-after-completion.  Whenever the error of a unit is raised to the
\* caller of fulfill_query, every dispatched unit has run to completion: none
\* is still waiting or running and none was cancelled.
C1_FailAfterCompletion ==
    (outcome.kind = "raise" /\ outcome.origin # "")
        => \A i \in Units : unitState[i] = "done"

C3_OnlyFailingUnitReported ==
    \A k \in Dispatched :
        (pc = "done" /\ Failing = {k}) =>
            /\ outcome.kind = "raise"
            /\ outcome.origin = query_interfaces[k]
            /\ k \in Returning => /\ outcome.by = "scan"
                                  /\ outcome.iface = query_interfaces[k]

C3_Witness ==
    /\ pc = "done"
    /\ \E k \in Dispatched :
          /\ Failing = {k}
          /\ k > 1
          /\ Len(query_interfaces) >= 3
          /\ completed[1] = k
          /\ outcome.origin = query_interfaces[k]

C5_NoPartialResult ==
    Failing # {} =>
        /\ outcome.kind # "return"
        /\ ~ rec.invoked
        /\ rec.merges = 0
        /\ rec.concats = 0

C5_Witness ==
    /\ pc = "done"
    /\ Len(query_interfaces) = 1
    /\ Returning = {1}
    /\ outcome.kind = "raise"

\* C6: a query with an unsupported type or an unregistered name ends in
\* Abort raised by the validation; no pool is created and no unit is
\* submitted, started or collected.
C6_InvalidQueryNoDispatch ==
    (\/ query.type \notin InterfaceTypes
     \/ \E i \in 1..Len(query.interfaces) : query.interfaces[i] \notin InterfaceNames)
        => /\ n_processes = 0
           /\ unitState = <<>>
           /\ completed = <<>>
           /\ data = <<>>
           /\ pc \in {"call", "done"}
           /\ pc = "done" => outcome.kind = "Abort" /\ outcome.by = "test_query"

C6_Witness ==
    /\ pc = "done"
    /\ outcome.kind = "Abort"
    /\ outcome.by = "test_query"
    /\ query.type \in InterfaceTypes
    /\ \E i \in 1..Len(query.interfaces) : query.interfaces[i] \in InterfaceNames

\* C7: crash defence.  If run() of a dispatched unit raises, the error
\* fulfill_query ends with is raised by the error scan, which names the first
\* failing unit, and every dispatched unit has run to completion.
C7_CrashDefence ==
    (pc = "done" /\ Raising # {}) =>
        /\ outcome.kind = "raise"
        /\ outcome.by = "scan"
        /\ outcome.origin = query_interfaces[First(Failing)]
        /\ outcome.iface = outcome.origin
        /\ \A i \in Units : unitState[i] = "done"

\* C8: singleton no-op.  A query that resolves to one unit whose run()
\* returns a table ends by returning exactly that table, and the merge stage
\* is not entered.
C8_SingletonNoOp ==
    (pc = "done" /\ Len(query_interfaces) = 1 /\ Failing = {}) =>
        /\ outcome.kind = "return"
        /\ outcome.table = ResultOf(1).table
        /\ ~ rec.invoked
        /\ rec.merges = 0
        /\ rec.concats = 0

C8_Witness ==
    /\ pc = "done"
    /\ Len(query_interfaces) = 1
    /\ Failing = {}
    /\ outcome.kind = "return"
    /\ Len(outcome.table.rows) > 0

\* the columns that every collected table has
InAllTables(c) == \A i \in 1..Len(data) : HasCol(data[i].table, c)

\* C9: two or more tables of which no two share a column name end in the
\* no-pivot abort; no table is returned.
C9_NoPivotColumn ==
    (/\ pc = "done"
     /\ Len(data) >= 2
     /\ Failing = {}
     /\ \A i, j \in 1..Len(data) :
           i # j => Range(data[i].table.cols) \cap Range(data[j].table.cols) = {})
        => /\ outcome.kind = "Abort"
           /\ outcome.err = "No pivot columns found"

\* C10: when two or more distinct columns are each in every table, the call
\* ends in the two-pivots abort, which names two of them, and no table is
\* returned.
C10_AmbiguousPivotColumn ==
    (/\ pc = "done"
     /\ Len(data) >= 2
     /\ Failing = {}
     /\ \E c1, c2 \in Range(data[1].table.cols) :
           c1 # c2 /\ InAllTables(c1) /\ InAllTables(c2))
        => /\ outcome.kind = "Abort"
           /\ outcome.err = "Found two pivot columns"
           /\ outcome.first # outcome.second
           /\ InAllTables(outcome.first)
           /\ InAllTables(outcome.second)

(***************************************************************************)
(* Reconciliation of given tables                                          *)
(***************************************************************************)
\* the collected tables have exactly these column tuples, in this order
DataColumns(colss) ==
    /\ pc = "done"
    /\ Failing = {}
    /\ Len(data) = Len(colss)
    /\ \A i \in 1..Len(colss) : data[i].table.cols = colss[i]

DataCols == UNION {Range(data[i].table.cols) : i \in 1..Len(data)}

\* the values the collected tables hold in column p
ValuesOf(p) ==
    UNION {{Cell(data[i].table, r, p) : r \in 1..Len(data[i].table.rows)} :
              i \in {j \in 1..Len(data) : HasCol(data[j].table, p)}}

\* two or more tables that all have column p, share no other column, and
\* hold no value of p twice within a table
WideCase(p) ==
    /\ pc = "done"
    /\ Failing = {}
    /\ Len(data) >= 2
    /\ InAllTables(p)
    /\ \A i, j \in 1..Len(data) :
          i # j => Range(data[i].table.cols) \cap Range(data[j].table.cols) = {p}
    /\ \A i \in 1..Len(data) : KeysUnique(data[i].table, <<p>>)

\* C12: wide merge.  Tables that share exactly the column p, present in all
\* of them, with unique values of p within each table, are reconciled into a
\* returned table whose columns are exactly the union of the input columns,
\* with one row per distinct value of p, each row carrying the cells of the
\* input rows with that value; every fold step is a join on p, and p is the
\* pivot column the atlas engine detects.
C12_WideMerge ==
    \A p \in DataCols :
        WideCase(p) =>
            LET t == outcome.table
            IN /\ outcome.kind = "return"
               /\ Range(t.cols) = DataCols
               /\ Len(t.cols) = Cardinality(DataCols)
               /\ KeysUnique(t, <<p>>)
               /\ KeysOf(t, <<p>>) = {<<v>> : v \in ValuesOf(p)}
               /\ \A i \in 1..Len(data) : \A r \in 1..Len(data[i].table.rows) :
                     \E s \in 1..Len(t.rows) :
                        \A c \in Range(data[i].table.cols) :
                           Cell(t, s, c) = Cell(data[i].table, r, c)
               /\ \A k \in 1..Len(rec.steps) :
                     rec.steps[k].on = <<p>> /\ ~ rec.steps[k].concat
               /\ engine = "atlas" => rec.pivot_col = <<p>>

\* three tables {A,B}, {B,C}, {B,D} whose B values differ in part, merged
C12_Witness ==
    /\ WideCase("B")
    /\ Len(data) = 3
    /\ DataCols = {"A", "B", "C", "D"}
    /\ outcome.kind = "return"
    /\ Cardinality(ValuesOf("B")) = 3
    /\ Len(outcome.table.rows) = 3
    /\ \E s \in 1..3 : Cell(outcome.table, s, "A") = NA

\* p is the one column that every collected table has
PivotIs(p) ==
    /\ Len(data) >= 2
    /\ InAllTables(p)
    /\ \A c \in DataCols : InAllTables(c) => c = p

\* row r of t without its cell in column p
Without(t, r, p) ==
    FilterSeq([j \in 1..Len(t.cols) |-> <<j, t.rows[r][j]>>],
              {<<j, t.rows[r][j]>> : j \in {i \in 1..Len(t.cols) : t.cols[i] # p}})

\* the cells of a sequence of <<position, value>> pairs
Cells(s) == [j \in 1..Len(s) |-> s[j][2]]

\* result is the one-to-one outer join of left and right on p: one row for
\* each value of p on either side, made of the left row with that value, or
\* nulls around the value, followed by the right row's other cells, or nulls
IsOuterJoinOn(p, left, right, result) ==
    LET vals == KeysOf(left, <<p>>) \cup KeysOf(right, <<p>>)
        leftPart(v) ==
            IF v \in KeysOf(left, <<p>>)
                THEN left.rows[CHOOSE r \in 1..Len(left.rows) : Key(left, r, <<p>>) = v]
                ELSE [j \in 1..Len(left.cols) |->
                         IF left.cols[j] = p THEN v[1] ELSE NA]
        rightPart(v) ==
            IF v \in KeysOf(right, <<p>>)
                THEN Cells(Without(right,
                         CHOOSE r \in 1..Len(right.rows) : Key(right, r, <<p>>) = v, p))
                ELSE NAs(Len(right.cols) - 1)
    IN /\ Len(result.rows) = Cardinality(vals)
       /\ \A v \in vals :
             \E s \in 1..Len(result.rows) :
                result.rows[s] = leftPart(v) \o rightPart(v)

\* C13: join case of the binary combine.  In a fold over tables whose one
\* common column is p, a step whose left and right arguments each hold no
\* value of p twice returns the one-to-one outer join on p alone: one row for
\* each pair of rows with equal p, every unmatched row kept with the other
\* side's cells null, no row dropped or duplicated.
C13_JoinOnPivotAlone ==
    \A p \in DataCols :
        (pc = "done" /\ Failing = {} /\ PivotIs(p)) =>
            \A k \in 1..Len(rec.steps) :
                LET st == rec.steps[k]
                IN (KeysUnique(st.left, <<p>>) /\ KeysUnique(st.right, <<p>>))
                      => /\ ~ st.concat
                         /\ st.on = <<p>>
                         /\ IsOuterJoinOn(p, st.left, st.right, st.result)

\* no two rows of t hold the same values in all the columns
RowsUnique(t) == \A r1, r2 \in 1..Len(t.rows) : t.rows[r1] = t.rows[r2] => r1 = r2

\* result holds the rows of left, then those of right, over the union of the
\* columns, the cells a side has no column for being null
IsStackOf(left, right, result) ==
    LET padded(t, r) == [j \in 1..Len(result.cols) |->
                            IF HasCol(t, result.cols[j])
                                THEN Cell(t, r, result.cols[j]) ELSE NA]
    IN /\ Range(result.cols) = Range(left.cols) \cup Range(right.cols)
       /\ Len(result.cols) = Cardinality(Range(result.cols))
       /\ Len(result.rows) = Len(left.rows) + Len(right.rows)
       /\ \A r \in 1..Len(left.rows) : result.rows[r] = padded(left, r)
       /\ \A r \in 1..Len(right.rows) :
             result.rows[Len(left.rows) + r] = padded(right, r)

\* C14: fallback case of the binary combine (cma_atlas).  In a fold over
\* tables whose one common column is p, a step one of whose arguments holds a
\* value of p twice raises nothing and returns the two arguments stacked:
\* columns unioned, missing cells null, as many rows as the two arguments
\* together; and the call returns no table only if some stacked result holds
\* the same full row twice.
C14_FallbackStacks ==
    \A p \in DataCols :
        (pc = "done" /\ Failing = {} /\ PivotIs(p) /\ engine = "cma_atlas") =>
            /\ \A k \in 1..Len(rec.steps) :
                  LET st == rec.steps[k]
                  IN (~ KeysUnique(st.left, <<p>>) \/ ~ KeysUnique(st.right, <<p>>))
                        => /\ st.concat
                           /\ IsStackOf(st.left, st.right, st.result)
            /\ outcome.kind # "return" =>
                  \E k \in 1..Len(rec.steps) :
                      rec.steps[k].concat /\ ~ RowsUnique(rec.steps[k].result)

\* both collected tables are the table {id, v} = [(1,10), (2,20)]
AppendExample ==
    /\ pc = "done"
    /\ Failing = {}
    /\ engine = "cma_atlas"
    /\ Len(data) = 2
    /\ data[1].table = IdV
    /\ data[2].table = IdV

Validated == pc # "call"

\* test_query raised InvalidQuery after logging the reason err
InvalidQuery(err) ==
    /\ outcome.kind = "Abort"
    /\ outcome.by = "test_query"
    /\ outcome.err = err

HasUnregisteredName ==
    \E i \in 1..Len(query.interfaces) : query.interfaces[i] \notin InterfaceNames

\* C16: a query whose type is the type of no registered interface is
\* rejected as of unsupported type, whatever names it lists: registered,
\* unregistered or none.
C16_UnsupportedType ==
    (Validated /\ query.type \notin InterfaceTypes) =>
        /\ pc = "done"
        /\ InvalidQuery("unsupported type")

C16_Witness ==
    /\ Validated
    /\ query.type \notin InterfaceTypes
    /\ query.interfaces = <<>>
    /\ InvalidQuery("unsupported type")

\* C17 as stated: a query that lists at least one unregistered name is
\* rejected as naming an unsupported interface.
C17_UnsupportedInterface ==
    (Validated /\ HasUnregisteredName) =>
        /\ pc = "done"
        /\ InvalidQuery("unsupported interface(s)")

\* C17 amended: a query of a supported type that lists at least one
\* unregistered name is rejected as naming an unsupported interface, also
\* when its other names are registered; when its type is unsupported too, it
\* is rejected as of unsupported type, the test that comes first.
C17_UnsupportedInterfaceAfterType ==
    (Validated /\ HasUnregisteredName) =>
        /\ pc = "done"
        /\ IF query.type \in InterfaceTypes
               THEN InvalidQuery("unsupported interface(s)")
               ELSE InvalidQuery("unsupported type")

C17_Witness ==
    /\ Validated
    /\ query.type \in InterfaceTypes
    /\ HasUnregisteredName
    /\ \E i \in 1..Len(query.interfaces) : query.interfaces[i] \in InterfaceNames
    /\ query.interfaces[1] \in InterfaceNames
    /\ InvalidQuery("unsupported interface(s)")

\* test_query returned True: fulfill_query went on to create the pool
ValidatedOk == Validated /\ outcome.by # "test_query" /\ n_processes >= 1

\* C18: the two warnings of the validation are not fatal.  A query of a
\* supported type whose names are all registered passes the validation, also
\* when a selected interface is of another type or the query was produced by
\* another version; and a call that differs from the caller's previous call
\* only in the version of the query passes or fails the validation as that
\* one did, and ends with the same outcome.
C18_WarningsNotFatal ==
    /\ (Validated /\ query.type \in InterfaceTypes /\ ~ HasUnregisteredName)
          => ValidatedOk
    /\ (Validated /\ prev.called) =>
          /\ ValidatedOk <=> prev.outcome.by # "test_query"
          /\ outcome.by = "test_query" => outcome = prev.outcome
    /\ (pc = "done" /\ prev.called) => outcome = prev.outcome

\* a second call with a query of another version than the first, both with a
\* selected interface of another type than the query's, returns a table
C18_Witness ==
    /\ pc = "done"
    /\ prev.called
    /\ prev.query.version # query.version
    /\ prev.warnings = {"mixed types"}
    /\ warnings = {"mixed types", "version"}
    /\ outcome.kind = "return"
    /\ outcome = prev.outcome

(***************************************************************************)
(* Worker pool                                                             *)
(***************************************************************************)
\* the process pool has been created
PoolCreated == Validated /\ outcome.by # "test_query"

\* C20: worker count.  The pool has cpu_count() workers when max_cores is
\* absent, max_cores workers when 1 <= max_cores <= cpu_count(), and for
\* every integer max_cores, also 0, negative or above cpu_count(), at least
\* one worker and at most cpu_count().
C20_WorkerCount ==
    PoolCreated =>
        /\ 1 <= n_processes
        /\ n_processes <= cpus
        /\ max_cores = <<>> => n_processes = cpus
        /\ (max_cores # <<>> /\ 1 <= max_cores[1] /\ max_cores[1] <= cpus)
              => n_processes = max_cores[1]

\* max_cores = 0 on a machine with several cores: one worker did all the work
C20_Witness ==
    /\ PoolCreated
    /\ pc = "done"
    /\ max_cores = <<0>>
    /\ cpus > 1
    /\ n_processes = 1
    /\ Len(data) = Len(interfaces)

(***************************************************************************)
(* Scheduling                                                              *)
(***************************************************************************)
\* C21: determinism under scheduling.  Two calls with the same registry, the
\* same query and the same outputs of the interfaces end with the same
\* outcome: the same table, or the same error naming the same interface and
\* columns, whatever the order in which the units started and completed in
\* either call and whatever the sizes of the two pools.
C21_SameOutcomeUnderAnySchedule ==
    (pc = "done" /\ prev.called) =>
        /\ prev.query = query
        /\ outcome.kind \in {"Abort", "raise", "return"}
        /\ outcome.kind = prev.outcome.kind
        /\ outcome.table = prev.outcome.table
        /\ outcome.err = prev.outcome.err
        /\ outcome.by = prev.outcome.by
        /\ outcome.iface = prev.outcome.iface
        /\ outcome.origin = prev.outcome.origin
        /\ outcome.first = prev.outcome.first
        /\ outcome.second = prev.outcome.second

\* a call on one worker, whose units complete in submission order, then the
\* same call on two workers where the second unit completed first; two units
\* returned a failure
C21_Witness ==
    /\ pc = "done"
    /\ prev.called
    /\ prev.n_processes = 1
    /\ n_processes = 2
    /\ Len(completed) >= 3
    /\ completed[1] = 2
    /\ Cardinality(Returning) >= 2
    /\ outcome.by = "scan"

\* how many times unit i has completed run()
TimesCompleted(i) == Cardinality({k \in 1..Len(completed) : completed[k] = i})

\* C22: exactly-once delivery.  No dispatched unit runs twice, and when the
\* call has ended every dispatched unit has run exactly once and its result
\* has been collected exactly once: data holds one item per unit, the i-th
\* being what the i-th unit's run() produced.
C22_ExactlyOnce ==
    /\ \A i \in Units : TimesCompleted(i) <= 1
    /\ Len(data) <= Len(query_interfaces)
    /\ \A i \in 1..Len(data) : data[i] = run(query_interfaces[i])
    /\ (pc = "done" /\ PoolCreated) =>
          /\ \A i \in Units : TimesCompleted(i) = 1 /\ unitState[i] = "done"
          /\ Len(data) = Len(query_interfaces)

(***************************************************************************)
(* Outcomes                                                                *)
(***************************************************************************)
\* the ways a call may end: a returned table, the abort of an invalid query,
\* the exception of a failing unit, the no-pivot and the two-pivots abort
DocumentedOutcome ==
    \/ outcome.kind = "return"
    \/ outcome.kind = "Abort" /\ outcome.by = "test_query"
    \/ outcome.kind = "raise" /\ outcome.by \in {"scan", "pool.map"}
                              /\ outcome.origin \in Range(query_interfaces)
    \/ outcome.kind = "Abort" /\ outcome.err = "No pivot columns found"
    \/ outcome.kind = "Abort" /\ outcome.err = "Found two pivot columns"

\* C23: outcome totality.  A call that has ended has returned a table or
\* raised one of the documented errors, also for a valid query that names no
\* interface and for tables whose shared columns are not in every table.
C23_OutcomeTotality ==
    pc = "done" => DocumentedOutcome

(***************************************************************************)
(* Columns of the reconciled table                                         *)
(***************************************************************************)
\* the names of a sequence without the repeats of a name already seen
RECURSIVE FirstSeen(_, _)
FirstSeen(names, seen) ==
    IF names = <<>> THEN seen
    ELSE FirstSeen(Tail(names),
                   IF Head(names) \in Range(seen) THEN seen
                                                  ELSE Append(seen, Head(names)))

\* C24: column order (cma_atlas).  The columns of the returned table are the
\* columns of the collected tables in first-seen order: those of the first
\* table in its order, then the new ones of each later table in that table's
\* order; the column joined on stays where it was first seen.
C24_FirstSeenColumnOrder ==
    (pc = "done" /\ engine = "cma_atlas" /\ outcome.kind = "return") =>
        outcome.table.cols =
            FirstSeen(Concat([i \in 1..Len(data) |-> data[i].table.cols]), <<>>)

\* {A,B}, {B,C}, {B,D} joined on B, which is not the first column
C24_Witness ==
    /\ pc = "done"
    /\ engine = "cma_atlas"
    /\ outcome.kind = "return"
    /\ Len(rec.steps) = 2
    /\ \A k \in 1..2 : rec.steps[k].on = <<"B">>
    /\ outcome.table.cols = <<"A", "B", "C", "D">>

(***************************************************************************)
(* Pivot column of the atlas engine                                        *)
(***************************************************************************)
\* the columns of the collected tables, table after table
AllColumnsInOrder == Concat([i \in 1..Len(data) |-> data[i].table.cols])

\* where the walk over the tables meets the column c for the second time
FirstRepeat(c) ==
    LET at == {k \in 1..Len(AllColumnsInOrder) : AllColumnsInOrder[k] = c}
    IN First(at \ {First(at)})

\* the columns that are in two or more tables
Candidates ==
    {c \in DataCols :
        Cardinality({k \in 1..Len(AllColumnsInOrder) : AllColumnsInOrder[k] = c}) >= 2}

\* the atlas engine has looked for the pivot column of two or more tables
PivotSearched ==
    /\ pc = "done"
    /\ engine = "atlas"
    /\ rec.invoked
    /\ Len(data) >= 2

\* C25: pivot candidates (atlas).  The candidates recorded are the columns
\* that are in two or more tables, once each, in the order in which the walk
\* over the tables first meets them again.  A candidate that some table
\* lacks is never the pivot and ends nothing: when one candidate is in every
\* table, it is the pivot also after candidates that were skipped, and the
\* tables are merged.
C25_CandidateEvaluation ==
    PivotSearched =>
        LET dc == rec.duplicate_cols
        IN /\ Range(dc) = Candidates
           /\ Len(dc) = Cardinality(Candidates)
           /\ \A i, j \in 1..Len(dc) :
                 i < j => FirstRepeat(dc[i]) < FirstRepeat(dc[j])
           /\ rec.pivot_col # <<>> => InAllTables(rec.pivot_col[1])
           /\ \A p \in Candidates :
                 (InAllTables(p) /\ \A c \in Candidates \ {p} : ~ InAllTables(c))
                    => /\ rec.pivot_col = <<p>>
                       /\ outcome.kind = "return"
                       /\ \A k \in 1..Len(rec.steps) : rec.steps[k].on = <<p>>

\* {A,B,C}, {A,B}, {B,D}: A is met again first and skipped, B is the pivot
C25_Witness ==
    /\ PivotSearched
    /\ rec.duplicate_cols = <<"A", "B">>
    /\ ~ InAllTables("A")
    /\ rec.pivot_col = <<"B">>
    /\ outcome.kind = "return"

\* reduce has called its binary function at least once
FoldStarted == rec.invoked /\ rec.merges >= 1

\* C26: whenever the fold over the tables has started, exactly one column is
\* in every collected table and it is the accepted pivot column; the fold
\* never starts without an accepted pivot.
C26_FoldHasOnePivot ==
    FoldStarted =>
        \E p \in DataCols :
            /\ PivotIs(p)
            /\ engine = "atlas" => rec.pivot_col = <<p>>

\* C27: bounded pool.  At every moment the number of units whose run() is in
\* progress is at most the size of the pool, which is at most cpu_count()
\* and, when max_cores is given, at most max_cores or one, whichever is
\* larger; also when more units were submitted than there are workers.
C27_BoundedPool ==
    /\ Cardinality(Running) <= n_processes
    /\ Cardinality(Running) <= cpus
    /\ max_cores # <<>> => Cardinality(Running) <= Max(1, max_cores[1])

\* four units on a pool of two workers: two are running, the others wait
C27_Witness ==
    /\ pc = "map"
    /\ Len(query_interfaces) = 4
    /\ max_cores = <<2>>
    /\ n_processes = 2
    /\ Cardinality(Running) = 2
    /\ Queued # {}

(***************************************************************************)
(* Progress                                                                *)
(***************************************************************************)
\* every submitted unit has been started and has completed its run()
AllCompleted == \A i \in Units : unitState[i] = "done" /\ TimesCompleted(i) = 1

\* fulfill_query has returned a table or raised an error
Ended == pc = "done" /\ outcome.kind \in {"return", "raise", "Abort"}

\* C28: progress and termination.  Once the pool exists, under fair
\* scheduling every submitted unit is eventually started and completed, also
\* with more units than workers and with a single worker, and the call
\* eventually ends by returning a table or raising an error.
C28_ProgressAndTermination ==
    PoolCreated ~> (Ended /\ AllCompleted)

\* the interface object behind the i-th unit of the query
InterfaceOf(i) == output[query_interfaces[i]]

\* the units of the query whose run() is the one of the base class
InterfaceUnits ==
    {i \in 1..Len(query_interfaces) : InterfaceOf(i).kind = "interface"}

\* the class of the exception raised inside run(): by the downloader, else by
\* the processor, else by the promised-column check; "no" if none is raised
RaisedInRun(i) ==
    LET o == InterfaceOf(i)
    IN CASE o.downloader # "returns" -> o.downloader
         [] o.processor.raises # "no" -> o.processor.raises
         [] engine = "cma_atlas" /\ o.provided_cols.is = "undefined" -> "Exception"
         [] OTHER -> "no"

\* the promised columns and the produced ones differ
Mismatch(i) ==
    LET o == InterfaceOf(i)
    IN /\ engine = "cma_atlas"
       /\ RaisedInRun(i) = "no"
       /\ o.provided_cols.is = "dict"
       /\ Range(o.provided_cols.keys) # Range(o.processor.table.cols)

\* the result of the i-th unit has arrived in the main process
Collected(i) == i <= Len(data)

\* run() of the i-th unit has ended
HasRun(i) == InSeq(i, completed)

\* without an exception run() returns the processor's output unchanged, and
\* a mismatch of the columns logs a warning and nothing else
ReturnsProcessed(i) ==
    /\ Collected(i) /\ RaisedInRun(i) = "no"
          => data[i] = TableResult(query_interfaces[i],
                                   InterfaceOf(i).processor.table)
    /\ HasRun(i) /\ Mismatch(i) => "promised columns" \in warnings

\* C29: interface unit run().  Any exception raised by the downloader, by the
\* processor or by the promised-column check is caught and returned as the
\* unit's result instead of leaving run(); without an exception run() returns
\* the processor's output unchanged, and a column mismatch only logs a
\* warning.
C29_RunCatchesAnyException ==
    \A i \in InterfaceUnits :
        /\ crashed # i
        /\ Collected(i) /\ RaisedInRun(i) # "no" => data[i].kind = "failure"
        /\ ReturnsProcessed(i)

\* C29, amended: an exception that is an instance of Exception is caught and
\* returned as the unit's result; an exception that derives from
\* BaseException only (KeyboardInterrupt, SystemExit) leaves run() and
\* reaches pool.map.  Without an exception run() returns the processor's
\* output unchanged, and a column mismatch only logs a warning.
C29_RunCatchesException ==
    \A i \in InterfaceUnits :
        /\ crashed = i => RaisedInRun(i) = "BaseException"
        /\ Collected(i) => RaisedInRun(i) # "BaseException"
        /\ Collected(i) /\ RaisedInRun(i) = "Exception"
              => data[i] = FailureResult(query_interfaces[i])
        /\ ReturnsProcessed(i)
        /\ "promised columns" \in warnings
              => \E j \in InterfaceUnits : HasRun(j) /\ Mismatch(j)

\* the first unit's columns differ from the promised ones and its table has
\* arrived with a warning; the second unit's column check raised and its
\* failure has arrived
C29_Witness ==
    /\ engine = "cma_atlas"
    /\ InterfaceUnits = {1, 2}
    /\ Len(data) = 2
    /\ Mismatch(1)
    /\ data[1].kind = "table"
    /\ "promised columns" \in warnings
    /\ InterfaceOf(2).downloader = "returns"
    /\ InterfaceOf(2).processor.raises = "no"
    /\ InterfaceOf(2).provided_cols.is = "undefined"
    /\ data[2].kind = "failure"

====
